---- MODULE Spec2Model ----
(***************************************************************************)
(* Student attendance analyzer (src/main.py): the record store self.df,    *)
(* the upload, analyze-with-date-filter and export handlers of             *)
(* AttendanceAnalyzerApp, and the aggregation of analyze_attendance.       *)
(*                                                                         *)
(* Texts that the program parses (dates) are sequences of one-character    *)
(* strings; names and statuses are atomic strings, compared exactly as     *)
(* Python compares them.  A percentage is an exact fraction [num, den]:    *)
(* the float the code computes is the rounding of that fraction, and the   *)
(* rounding is monotone and injective on the fractions that occur here.    *)
(***************************************************************************)
EXTENDS FiniteSets, Integers, Sequences, TLC

VARIABLES disk, df, last

vars == <<disk, df, last>>

(***************************************************************************)
(* Bounds of the model.                                                    *)
(***************************************************************************)
\* Longest generated CSV body, in rows.
MaxRows == 3

(***************************************************************************)
(* Generic helpers.                                                        *)
(***************************************************************************)
Range(s) == {s[i] : i \in DOMAIN s}

\* The subsequence of s at the (increasing) positions in idx.
RECURSIVE Pick(_, _, _)
Pick(s, idx, i) ==
    IF i > Len(s) THEN <<>>
    ELSE (IF i \in idx THEN <<s[i]>> ELSE <<>>) \o Pick(s, idx, i + 1)

\* All sequences over S of length at most n.
SeqUpTo(S, n) == UNION {[1..k -> S] : k \in 0..n}

(***************************************************************************)
(* Fractions: Python floats of the form 100 * k / n and their means.       *)
(***************************************************************************)
Rat(n, d) == [num |-> n, den |-> d]
RatLess(a, b) == a.num * b.den < b.num * a.den
RatEq(a, b) == a.num * b.den = b.num * a.den
RatLeq(a, b) == a.num * b.den <= b.num * a.den
RatAdd(a, b) == Rat(a.num * b.den + b.num * a.den, a.den * b.den)

(***************************************************************************)
(* Date texts and timestamps.                                              *)
(***************************************************************************)
\* The date texts of the model: what a Date cell of a CSV can hold and what
\* the user can type into a date entry.
Txt(a, b, c, d, e, f, g, h, i, j) == <<a, b, c, d, e, f, g, h, i, j>>

Jan01 == Txt("2", "0", "2", "4", "-", "0", "1", "-", "0", "1")
Jan02 == Txt("2", "0", "2", "4", "-", "0", "1", "-", "0", "2")
Jan03 == Txt("2", "0", "2", "4", "-", "0", "1", "-", "0", "3")
Jan3Short == <<"2", "0", "2", "4", "-", "1", "-", "3">>
Slashed == Txt("0", "1", "/", "0", "2", "/", "2", "0", "2", "4")
NotADate == <<"n", "/", "a">>

AllTexts == {<<>>, Jan01, Jan02, Jan03, Jan3Short, Slashed, NotADate}

DigitChars == <<"0", "1", "2", "3", "4", "5", "6", "7", "8", "9">>

IsDigit(c) == c \in Range(DigitChars)

DigitVal(c) == (CHOOSE i \in DOMAIN DigitChars : DigitChars[i] = c) - 1

RECURSIVE NumVal(_)
NumVal(s) ==
    IF s = <<>> THEN 0
    ELSE 10 * NumVal(SubSeq(s, 1, Len(s) - 1)) + DigitVal(s[Len(s)])

AllDigits(s) == \A i \in DOMAIN s : IsDigit(s[i])

\* The fields of a text between its "-" separators.
RECURSIVE SplitDash(_)
SplitDash(s) ==
    IF \A i \in DOMAIN s : s[i] # "-" THEN <<s>>
    ELSE LET k == CHOOSE i \in DOMAIN s :
                      s[i] = "-" /\ \A j \in 1..(i - 1) : s[j] # "-"
         IN  <<SubSeq(s, 1, k - 1)>> \o SplitDash(SubSeq(s, k + 1, Len(s)))

IsLeap(y) == (y % 4 = 0 /\ y % 100 # 0) \/ y % 400 = 0

DaysInMonth(y, m) ==
    IF m = 2 THEN (IF IsLeap(y) THEN 29 ELSE 28)
    ELSE IF m \in {4, 6, 9, 11} THEN 30 ELSE 31

\* A value raised instead of returned.
Raise == [raised |-> TRUE]

Timestamp(y, m, d) == [raised |-> FALSE, y |-> y, m |-> m, d |-> d]

\* datetime.strptime(text, "%Y-%m-%d"): four digits, one or two digits in
\* 1..12, one or two digits in 1..31, and a day that exists in the month.
strptime(text) ==
    LET f == SplitDash(text)
    IN  IF /\ Len(f) = 3
           /\ Len(f[1]) = 4 /\ AllDigits(f[1]) /\ NumVal(f[1]) >= 1
           /\ Len(f[2]) \in 1..2 /\ AllDigits(f[2]) /\ NumVal(f[2]) \in 1..12
           /\ Len(f[3]) \in 1..2 /\ AllDigits(f[3])
           /\ NumVal(f[3]) \in 1..DaysInMonth(NumVal(f[1]), NumVal(f[2]))
        THEN Timestamp(NumVal(f[1]), NumVal(f[2]), NumVal(f[3]))
        ELSE Raise

\* strptime on the texts of the model, computed once.
Parsed == [t \in AllTexts |-> strptime(t)]

\* Timestamp comparison, a <= b.
TsLeq(a, b) ==
    \/ a.y < b.y
    \/ a.y = b.y /\ a.m < b.m
    \/ a.y = b.y /\ a.m = b.m /\ a.d <= b.d

\* A cell of the Date column: the text read from the CSV, or the timestamp
\* that pd.to_datetime has put in its place.
StrCell(text) == [kind |-> "str", text |-> text]
TsCell(t) == [kind |-> "ts", y |-> t.y, m |-> t.m, d |-> t.d]

\* pd.to_datetime on one cell: a timestamp stays, an ISO date text is
\* parsed, any other text raises.
to_datetime_cell(c) ==
    IF c.kind = "ts" THEN Timestamp(c.y, c.m, c.d) ELSE Parsed[c.text]

\* Two digits, zero padded (d < 100); four digits for a year.
Pad2(n) == <<DigitChars[(n \div 10) + 1], DigitChars[(n % 10) + 1]>>
Pad4(n) == Pad2(n \div 100) \o Pad2(n % 100)

\* The text to_csv writes for a Date cell.
CellText(c) ==
    IF c.kind = "str" THEN c.text
    ELSE Pad4(c.y) \o <<"-">> \o Pad2(c.m) \o <<"-">> \o Pad2(c.d)

(***************************************************************************)
(* Data frames.  A frame has its column names in order and one row per     *)
(* record; a row maps each column to its cell.                             *)
(***************************************************************************)
DataFrame(columns, rows) == [columns |-> columns, rows |-> rows]

\* hasattr(self, 'df') is false: the attribute was never assigned.
NoAttr == [set |-> FALSE]
Attr(d) == [set |-> TRUE, columns |-> d.columns, rows |-> d.rows]

\* pd.read_csv: the header and the cells of the file, dates still as text.
read_csv(f) ==
    DataFrame(f.columns,
              [i \in DOMAIN f.rows |->
                  [c \in Range(f.columns) |->
                      IF c = "Date" THEN StrCell(f.rows[i][c]) ELSE f.rows[i][c]]])

\* DataFrame.to_csv(index=False): the file contents written for a frame.
to_csv(d) ==
    [columns |-> d.columns,
     rows |-> [i \in DOMAIN d.rows |->
                  [c \in Range(d.columns) |->
                      IF c = "Date" THEN CellText(d.rows[i][c]) ELSE d.rows[i][c]]]]

\* df.values.tolist(): each row as the list of its cells in column order.
values_tolist(d) ==
    [i \in DOMAIN d.rows |-> [j \in DOMAIN d.columns |-> d.rows[i][d.columns[j]]]]

required_columns == {"Student Name", "Date", "Status"}

(***************************************************************************)
(* The aggregation of analyze_attendance.                                  *)
(***************************************************************************)
\* The student names of the model in Python's string order.
NameOrder == <<"Alice", "Bob", "Carol">>

\* groupby("Student Name"): the distinct names of the frame, sorted.
GroupKeys(rows) ==
    SelectSeq(NameOrder, LAMBDA n : \E i \in DOMAIN rows : rows[i]["Student Name"] = n)

\* The Status cells of the rows of one student, in row order.
GroupStatus(rows, n) ==
    LET g == SelectSeq(rows, LAMBDA r : r["Student Name"] = n)
    IN  [i \in DOMAIN g |-> g[i]["Status"]]

\* Variant: the comparison ignores the case of the status.
IsPresentLoose(st) == st \in {"Present", "present", "PRESENT"}
\* x == "Present", one status.
IsPresent(st) == st = "Present"

\* (x == "Present").sum() over the statuses of a group.
RECURSIVE CountPresent(_)
CountPresent(x) ==
    IF x = <<>> THEN 0
    ELSE (IF IsPresent(Head(x)) THEN 1 ELSE 0) + CountPresent(Tail(x))

\* lambda x: (x == "Present").mean() * 100
Pct(rows, n) ==
    LET x == GroupStatus(rows, n)
    IN  Rat(100 * CountPresent(x), Len(x))

\* attendance_summary: a Series, the sorted names and their percentages.
attendance_summary(rows) ==
    LET keys == GroupKeys(rows)
    IN  [index |-> keys, values |-> [i \in DOMAIN keys |-> Pct(rows, keys[i])]]

\* Variant of ArgMax: the last occurrence of the maximum.
RECURSIVE ArgMaxLast(_, _, _)
ArgMaxLast(v, best, i) ==
    IF i > Len(v) THEN best
    ELSE ArgMaxLast(v, IF RatLeq(v[best], v[i]) THEN i ELSE best, i + 1)
\* Series.idxmax(): the label of the first occurrence of the maximum.
RECURSIVE ArgMax(_, _, _)
ArgMax(v, best, i) ==
    IF i > Len(v) THEN best
    ELSE ArgMax(v, IF RatLess(v[best], v[i]) THEN i ELSE best, i + 1)

\* Series.idxmin(): the label of the first occurrence of the minimum.
RECURSIVE ArgMin(_, _, _)
ArgMin(v, best, i) ==
    IF i > Len(v) THEN best
    ELSE ArgMin(v, IF RatLess(v[i], v[best]) THEN i ELSE best, i + 1)

\* Variant of idxmax.
idxmaxLast(s) == s.index[ArgMaxLast(s.values, 1, 2)]
idxmax(s) == s.index[ArgMax(s.values, 1, 2)]
idxmin(s) == s.index[ArgMin(s.values, 1, 2)]

\* Series.mean(): the sum of the values over their number.
RECURSIVE SumRat(_)
SumRat(v) == IF v = <<>> THEN Rat(0, 1) ELSE RatAdd(Head(v), SumRat(Tail(v)))

SeriesMean(s) ==
    LET t == SumRat(s.values) IN Rat(t.num, t.den * Len(s.values))

\* Variant of the mean: the share of Present rows among all rows.
RawShare(rows) ==
    Rat(100 * CountPresent([i \in DOMAIN rows |-> rows[i]["Status"]]), Len(rows))

\* Variant: the mean over the raw records.
overall_attendanceRaw(rows, s) == RawShare(rows)
\* overall_attendance = attendance_summary.mean()
overall_attendance(rows, s) == SeriesMean(s)

(***************************************************************************)
(* Dialogs shown to the user.                                              *)
(***************************************************************************)
Dialog(kind, title, text) == [kind |-> kind, title |-> title, text |-> text]

InfoFileLoaded == Dialog("info", "File Loaded", "loaded successfully")
InfoSummary == Dialog("info", "Attendance Summary", "summary")
InfoInsights == Dialog("info", "Attendance Insights", "insights")
InfoNoRecords == Dialog("info", "No Data", "No records found for the selected date range.")
InfoExported == Dialog("info", "Report Exported", "PDF report saved")
WarnNoData == Dialog("warning", "No Data", "Please upload and analyze attendance data first.")
ErrLoad == Dialog("error", "Error", "Failed to load file")
ErrAnalyze == Dialog("error", "Error", "Failed to analyze attendance")
ErrFilter == Dialog("error", "Error", "Failed to filter data")
ErrExport == Dialog("error", "Error", "Failed to export report")

\* What one call of analyze_attendance does: the dialogs it shows, the
\* summary it displays (none or one), the insights it displays (none or
\* one) and whether it wrote the chart image.  plotOk is whether the
\* plotting calls of lines 68-76 return.
Analysis(dialogs, summary, insights, chart) ==
    [dialogs |-> dialogs, summary |-> summary, insights |-> insights, chart |-> chart]

\* Lines 78-92: the summary dialog, then the insights.  idxmax raises
\* ValueError on an empty Series, after the summary dialog was shown.
Insights(rows, s) ==
    [most_regular |-> idxmax(s), least_regular |-> idxmin(s),
     overall_attendance |-> overall_attendance(rows, s)]

\* Variant: an empty summary ends the call without an error.
display_summarySkipEmpty(rows, s) ==
    IF s.index = <<>>
    THEN Analysis(<<InfoSummary>>, <<s>>, <<>>, TRUE)
    ELSE Analysis(<<InfoSummary, InfoInsights>>, <<s>>, <<Insights(rows, s)>>, TRUE)
display_summary(rows, s) ==
    IF s.index = <<>>
    THEN Analysis(<<InfoSummary, ErrAnalyze>>, <<s>>, <<>>, TRUE)
    ELSE Analysis(<<InfoSummary, InfoInsights>>, <<s>>, <<Insights(rows, s)>>, TRUE)

analyze_attendance(d, plotOk) ==
    IF ~(required_columns \subseteq Range(d.columns))
    THEN Analysis(<<ErrAnalyze>>, <<>>, <<>>, FALSE)
    ELSE IF ~plotOk
    THEN Analysis(<<ErrAnalyze>>, <<>>, <<>>, FALSE)
    ELSE display_summary(d.rows, attendance_summary(d.rows))

(***************************************************************************)
(* The date filter of analyze_with_date_filter.                            *)
(***************************************************************************)
\* pd.to_datetime(self.df['Date']): raises if any cell does not parse.
DateColumnParses(d) ==
    \A i \in DOMAIN d.rows : ~to_datetime_cell(d.rows[i]["Date"]).raised

\* self.df['Date'] = pd.to_datetime(self.df['Date'])
WithDatetimeColumn(d) ==
    DataFrame(d.columns,
              [i \in DOMAIN d.rows |->
                  [d.rows[i] EXCEPT !["Date"] = TsCell(to_datetime_cell(@))]])

\* Variant: the end of the range is excluded.
InRangeExclusiveEnd(r, start, end) ==
    LET t == to_datetime_cell(r["Date"])
    IN  TsLeq(start, t) /\ TsLeq(t, end) /\ t # end
\* (self.df['Date'] >= start_date) & (self.df['Date'] <= end_date), one row.
InRange(r, start, end) ==
    LET t == to_datetime_cell(r["Date"])
    IN  TsLeq(start, t) /\ TsLeq(t, end)

\* self.df[mask]: the rows where the mask holds, in their order.
filtered_df(d, start, end) ==
    DataFrame(d.columns, SelectSeq(d.rows, LAMBDA r : InRange(r, start, end)))

\* Variant: the filtered frame is assigned to self.df.
date_filterInPlace(d, start, end) ==
    LET fd == filtered_df(WithDatetimeColumn(d), start, end)
    IN  [store |-> fd, filtered_df |-> fd]
\* Lines 108-109: the frame left in self.df and the frame filtered out of it.
date_filter(d, start, end) ==
    LET converted == WithDatetimeColumn(d)
    IN  [store |-> converted, filtered_df |-> filtered_df(converted, start, end)]

\* Variant: the emptiness check is missing.
is_emptyNever(d) == FALSE
\* filtered_df.empty
is_empty(d) == d.rows = <<>>

(***************************************************************************)
(* CSV files the user can select.                                          *)
(***************************************************************************)
File(name, readable, columns, rows) ==
    [name |-> name, readable |-> readable, columns |-> columns, rows |-> rows]

StdColumns == <<"Student Name", "Date", "Status">>

Row(n, date, st) == ("Student Name" :> n) @@ ("Date" :> date) @@ ("Status" :> st)

\* The rows the generated files are made of.
RowChoices ==
    { Row("Alice", Jan01, "Present"),
      Row("Alice", Jan02, "Absent"),
      Row("Bob", Jan01, "Present"),
      Row("Bob", Jan03, "present"),
      Row("Carol", Jan02, "Absent"),
      Row("Carol", NotADate, "Present") }

GenFiles ==
    {File("class.csv", TRUE, StdColumns, r) : r \in SeqUpTo(RowChoices, MaxRows)}

\* The example of the documentation: Alice 50%, Bob 100%.
ExampleFile ==
    File("attendance.csv", TRUE, StdColumns,
         << Row("Alice", Jan01, "Present"), Row("Alice", Jan02, "Absent"),
            Row("Bob", Jan01, "Present"), Row("Bob", Jan02, "Present") >>)

\* A file with a column the program does not know.
RemarksFile ==
    File("remarks.csv", TRUE, <<"Student Name", "Date", "Status", "Remarks">>,
         << Row("Bob", Jan02, "Present") @@ ("Remarks" :> "late"),
            Row("Alice", Jan01, "Present") @@ ("Remarks" :> "on time") >>)

HeaderOnlyFile == File("empty.csv", TRUE, StdColumns, <<>>)

NoStatusFile ==
    File("nostatus.csv", TRUE, <<"Student Name", "Date">>,
         << ("Student Name" :> "Alice") @@ ("Date" :> Jan01) >>)

UnreadableFile == File("broken.csv", FALSE, <<>>, <<>>)

FixedFiles == {ExampleFile, RemarksFile, HeaderOnlyFile, NoStatusFile, UnreadableFile}

\* What the user can type into a date entry.
DateTexts == {<<>>, Jan01, Jan02, Jan3Short, Slashed}

(***************************************************************************)
(* State.                                                                  *)
(*   disk   the CSV files the user can select                              *)
(*   df     self.df, or NoAttr while the attribute does not exist          *)
(*   last   the last handler call: its name, the texts of the two date     *)
(*          entries it read, the dialogs it showed, the frame it filtered  *)
(*          out, the frame it passed to analyze_attendance, the summary    *)
(*          and insights it displayed, and the files it wrote: the copy    *)
(*          under data/, the chart image, the PDF table.  The program      *)
(*          never reads these files back.                                  *)
(***************************************************************************)
Last(op, args, dialogs, filtered, analyzed, summary, insights, copy, chart, table) ==
    [op |-> op, args |-> args, dialogs |-> dialogs, filtered |-> filtered,
     analyzed |-> analyzed, summary |-> summary, insights |-> insights,
     copy |-> copy, chart |-> chart, pdf |-> table]

Quiet(op, args, dialogs) ==
    Last(op, args, dialogs, <<>>, <<>>, <<>>, <<>>, <<>>, FALSE, <<>>)

Frame(a) == DataFrame(a.columns, a.rows)

InitApp ==
    /\ df = NoAttr
    /\ last = Quiet("__init__", <<>>, <<>>)

\* The user has the fixed files to choose from.
Init == disk = FixedFiles /\ InitApp

\* The user has one generated file.
InitOneFile == disk \in {{f} : f \in GenFiles \cup {ExampleFile}} /\ InitApp

(***************************************************************************)
(* load_and_analyze                                                        *)
(***************************************************************************)
\* The file dialog is cancelled: file_path is empty.
LoadCancel ==
    /\ last' = Quiet("load_and_analyze", <<>>, <<>>)
    /\ UNCHANGED <<disk, df>>

\* The user selects f.  writeOk: the copy under data/ can be written.
load_and_analyze(f, writeOk, plotOk) ==
    IF ~f.readable
    THEN /\ last' = Quiet("load_and_analyze", <<>>, <<ErrLoad>>)
         /\ UNCHANGED <<disk, df>>
    ELSE LET d == read_csv(f)
             a == analyze_attendance(d, plotOk)
         IN  /\ df' = Attr(d)
             /\ IF ~writeOk
                THEN last' = Quiet("load_and_analyze", <<>>, <<ErrLoad>>)
                ELSE last' = Last("load_and_analyze", <<>>,
                                  <<InfoFileLoaded>> \o a.dialogs,
                                  <<>>, <<d>>, a.summary, a.insights,
                                  <<[name |-> f.name, contents |-> to_csv(d)]>>,
                                  a.chart, <<>>)
             /\ UNCHANGED disk

Load == \E f \in disk, writeOk \in BOOLEAN, plotOk \in BOOLEAN :
            load_and_analyze(f, writeOk, plotOk)

(***************************************************************************)
(* analyze_with_date_filter                                                *)
(***************************************************************************)
\* hasattr(self, 'df')
hasattr_df(x) == x.set

analyze_with_date_filter(start_text, end_text, plotOk) ==
    LET args == <<start_text, end_text>>
        fail == /\ last' = Quiet("analyze_with_date_filter", args, <<ErrFilter>>)
                /\ UNCHANGED <<disk, df>>
    IN  IF start_text = <<>> \/ end_text = <<>> THEN fail
        ELSE IF Parsed[start_text].raised \/ Parsed[end_text].raised THEN fail
        ELSE IF ~hasattr_df(df) THEN fail
        ELSE IF "Date" \notin Range(df.columns) THEN fail
        ELSE IF ~DateColumnParses(Frame(df)) THEN fail
        ELSE LET r == date_filter(Frame(df), Parsed[start_text], Parsed[end_text])
                 fd == r.filtered_df
                 a == analyze_attendance(fd, plotOk)
             IN  /\ df' = Attr(r.store)
                 /\ IF is_empty(fd)
                    THEN last' = Last("analyze_with_date_filter", args,
                                      <<InfoNoRecords>>, <<fd>>, <<>>, <<>>, <<>>,
                                      <<>>, FALSE, <<>>)
                    ELSE last' = Last("analyze_with_date_filter", args, a.dialogs,
                                      <<fd>>, <<fd>>, a.summary, a.insights,
                                      <<>>, a.chart, <<>>)
                 /\ UNCHANGED disk

Filter == \E s \in DateTexts, e \in DateTexts, plotOk \in BOOLEAN :
              analyze_with_date_filter(s, e, plotOk)

(***************************************************************************)
(* export_report_pdf                                                       *)
(***************************************************************************)
\* table_data = [list(self.df.columns)] + self.df.values.tolist()
table_data(d) == <<d.columns>> \o values_tolist(d)

\* Variant: a missing self.df is exported as an empty table.
export_report_pdfUnguarded(buildOk) ==
    IF ~buildOk
    THEN /\ last' = Quiet("export_report_pdf", <<>>, <<ErrExport>>)
         /\ UNCHANGED <<disk, df>>
    ELSE /\ last' = Last("export_report_pdf", <<>>, <<InfoExported>>,
                         <<>>, <<>>, <<>>, <<>>, <<>>, FALSE,
                         <<IF hasattr_df(df) THEN table_data(Frame(df)) ELSE <<>> >>)
         /\ UNCHANGED <<disk, df>>
\* buildOk: doc.build writes the file.
export_report_pdf(buildOk) ==
    IF ~hasattr_df(df)
    THEN /\ last' = Quiet("export_report_pdf", <<>>, <<WarnNoData>>)
         /\ UNCHANGED <<disk, df>>
    ELSE IF ~buildOk
    THEN /\ last' = Quiet("export_report_pdf", <<>>, <<ErrExport>>)
         /\ UNCHANGED <<disk, df>>
    ELSE /\ last' = Last("export_report_pdf", <<>>, <<InfoExported>>,
                         <<>>, <<>>, <<>>, <<>>, <<>>, FALSE,
                         <<table_data(Frame(df))>>)
         /\ UNCHANGED <<disk, df>>

Export == \E buildOk \in BOOLEAN : export_report_pdf(buildOk)

Next == LoadCancel \/ Load \/ Filter \/ Export

Spec == Init /\ [][Next]_vars

SpecOneFile == InitOneFile /\ [][Next]_vars

(***************************************************************************)
(* What the documentation says of a frame, stated on its rows directly.    *)
(***************************************************************************)
NamesOf(rows) == {rows[i]["Student Name"] : i \in DOMAIN rows}

RowsOf(rows, n) == {i \in DOMAIN rows : rows[i]["Student Name"] = n}

PresentRowsOf(rows, n) == {i \in RowsOf(rows, n) : rows[i]["Status"] = "Present"}

\* 100 x (Present records of the student) / (records of the student)
ExpectedPct(rows, n) ==
    Rat(100 * Cardinality(PresentRowsOf(rows, n)), Cardinality(RowsOf(rows, n)))

RECURSIVE SumOfPct(_, _)
SumOfPct(rows, N) ==
    IF N = {} THEN Rat(0, 1)
    ELSE LET n == CHOOSE x \in N : TRUE
         IN  RatAdd(ExpectedPct(rows, n), SumOfPct(rows, N \ {n}))

\* The mean of the students' percentages, each student counted once.
ExpectedMean(rows) ==
    LET t == SumOfPct(rows, NamesOf(rows))
    IN  Rat(t.num, t.den * Cardinality(NamesOf(rows)))

\* The share of Present records among all records.
ExpectedRawShare(rows) ==
    Rat(100 * Cardinality({i \in DOMAIN rows : rows[i]["Status"] = "Present"}), Len(rows))

NameRank(n) == CHOOSE i \in DOMAIN NameOrder : NameOrder[i] = n

\* The day a timestamp or a converted Date cell stands for, as one number.
DayKey(t) == (t.y * 100 + t.m) * 100 + t.d

\* The last call passed a non-empty frame to analyze_attendance.
AnalyzedRows == IF last.analyzed = <<>> THEN <<>> ELSE last.analyzed[1].rows

(***************************************************************************)
(* C1.  For every non-empty frame passed to analyze_attendance (the whole  *)
(* dataset after a load, the filtered rows after a date filter) the        *)
(* summary displayed has exactly one entry per distinct Student Name of    *)
(* that frame, and each entry is 100 x (rows of the student whose Status   *)
(* is exactly "Present") / (rows of the student).  A summary is displayed  *)
(* whenever the call reports no error.                                     *)
(***************************************************************************)
C1_SummaryPerStudent ==
    AnalyzedRows # <<>> =>
        /\ (ErrAnalyze \notin Range(last.dialogs) => last.summary # <<>>)
        /\ \A k \in DOMAIN last.summary :
              LET s == last.summary[k]
              IN  /\ Len(s.index) = Len(s.values)
                  /\ Range(s.index) = NamesOf(AnalyzedRows)
                  /\ Len(s.index) = Cardinality(NamesOf(AnalyzedRows))
                  /\ \A i \in DOMAIN s.index :
                        /\ s.values[i].den > 0
                        /\ RatEq(s.values[i], ExpectedPct(AnalyzedRows, s.index[i]))

\* A date filter passed a proper part of the dataset with two students, one
\* of them with a row whose status is "present" in lower case.
C1_Witness ==
    /\ last.op = "analyze_with_date_filter"
    /\ last.summary # <<>>
    /\ Len(AnalyzedRows) < Len(df.rows)
    /\ Cardinality(NamesOf(AnalyzedRows)) >= 2
    /\ \E i \in DOMAIN AnalyzedRows : AnalyzedRows[i]["Status"] = "present"

(***************************************************************************)
(* C2.  Every percentage of a displayed summary is in [0, 100], and the    *)
(* overall attendance displayed is the mean of the students' percentages,  *)
(* each student weighted equally.                                          *)
(***************************************************************************)
C2_OverallIsMeanOfPercentages ==
    /\ \A k \in DOMAIN last.summary : \A i \in DOMAIN last.summary[k].values :
          LET p == last.summary[k].values[i]
          IN  p.den > 0 /\ 0 <= p.num /\ p.num <= 100 * p.den
    /\ \A k \in DOMAIN last.insights :
          LET o == last.insights[k].overall_attendance
          IN  o.den > 0 /\ RatEq(o, ExpectedMean(AnalyzedRows))

\* Insights were displayed for a frame where the mean of the percentages
\* differs from the share of Present rows.
C2_Witness ==
    /\ last.insights # <<>>
    /\ ~RatEq(ExpectedMean(AnalyzedRows), ExpectedRawShare(AnalyzedRows))

(***************************************************************************)
(* C3.  The most regular student displayed has a percentage >= that of     *)
(* every student, the least regular one a percentage <= that of every      *)
(* student; among the students that tie, the one displayed is the first    *)
(* in the order of the summary, which is the order of the names.           *)
(***************************************************************************)
C3_MostAndLeastRegular ==
    /\ \A k \in DOMAIN last.summary :
          \A i, j \in DOMAIN last.summary[k].index :
              i < j => NameRank(last.summary[k].index[i]) < NameRank(last.summary[k].index[j])
    /\ \A k \in DOMAIN last.insights :
          LET most == last.insights[k].most_regular
              least == last.insights[k].least_regular
              pct(n) == ExpectedPct(AnalyzedRows, n)
          IN  /\ most \in NamesOf(AnalyzedRows)
              /\ least \in NamesOf(AnalyzedRows)
              /\ \A n \in NamesOf(AnalyzedRows) :
                    /\ RatLeq(pct(n), pct(most))
                    /\ RatEq(pct(n), pct(most)) => NameRank(most) <= NameRank(n)
                    /\ RatLeq(pct(least), pct(n))
                    /\ RatEq(pct(n), pct(least)) => NameRank(least) <= NameRank(n)

\* Insights were displayed for a frame whose first row is of a student that
\* ties for the maximum with a student of an earlier name, and where some
\* student has a lower percentage.
C3_Witness ==
    /\ last.insights # <<>>
    /\ LET most == last.insights[1].most_regular
           first == AnalyzedRows[1]["Student Name"]
       IN  /\ first # most
           /\ RatEq(ExpectedPct(AnalyzedRows, first), ExpectedPct(AnalyzedRows, most))
           /\ last.insights[1].least_regular # most

(***************************************************************************)
(* C4.  The rows a date filter selects and passes on are exactly the rows  *)
(* of the stored dataset whose date d satisfies start <= d <= end, in      *)
(* their order; with start = end they are the rows of that single day;     *)
(* filtering them again with the same range returns the same rows.         *)
(***************************************************************************)
RowsInRange(rows, lo, hi) ==
    {i \in DOMAIN rows : lo <= DayKey(rows[i]["Date"]) /\ DayKey(rows[i]["Date"]) <= hi}

C4_FilterSelectsInclusiveRange ==
    (last.op = "analyze_with_date_filter" /\ last.filtered # <<>>) =>
        LET lo == DayKey(Parsed[last.args[1]])
            hi == DayKey(Parsed[last.args[2]])
            fd == last.filtered[1]
            expected == Pick(df.rows, RowsInRange(df.rows, lo, hi), 1)
        IN  /\ fd.rows = expected
            /\ fd.columns = df.columns
            /\ (expected # <<>> => last.analyzed = <<fd>>)
            /\ (lo = hi =>
                  /\ \A i \in DOMAIN fd.rows : DayKey(fd.rows[i]["Date"]) = lo
                  /\ Len(fd.rows) =
                        Cardinality({i \in DOMAIN df.rows : DayKey(df.rows[i]["Date"]) = lo}))
            /\ filtered_df(fd, Parsed[last.args[1]], Parsed[last.args[2]]) = fd

\* A filter over several days selected some rows, not all, one of them dated
\* on the end day and one on the start day; the end was typed without zero
\* padding.
C4_Witness ==
    /\ last.op = "analyze_with_date_filter"
    /\ last.filtered # <<>>
    /\ last.args = <<Jan02, Jan3Short>>
    /\ Len(last.filtered[1].rows) >= 2
    /\ Len(last.filtered[1].rows) < Len(df.rows)
    /\ \E i \in DOMAIN last.filtered[1].rows :
          DayKey(last.filtered[1].rows[i]["Date"]) = DayKey(Parsed[Jan03])
    /\ \E i \in DOMAIN last.filtered[1].rows :
          DayKey(last.filtered[1].rows[i]["Date"]) = DayKey(Parsed[Jan02])

(***************************************************************************)
(* The records of a frame or a file, whatever the form of their dates: a   *)
(* date is the day it stands for, or its text if it stands for none.       *)
(***************************************************************************)
CellDate(c) ==
    IF c.kind = "ts" THEN [day |-> DayKey(c)]
    ELSE IF ~Parsed[c.text].raised THEN [day |-> DayKey(Parsed[c.text])]
    ELSE [text |-> c.text]

RecordsOf(d) ==
    [i \in DOMAIN d.rows |->
        [c \in Range(d.columns) |->
            IF c = "Date" THEN CellDate(d.rows[i][c]) ELSE d.rows[i][c]]]

FileRecords(f) ==
    [i \in DOMAIN f.rows |->
        [c \in Range(f.columns) |->
            IF c = "Date" THEN CellDate(StrCell(f.rows[i][c])) ELSE f.rows[i][c]]]

IsUploadOf(x, f) ==
    f.readable /\ x.set /\ x.columns = f.columns /\ RecordsOf(x) = FileRecords(f)

(***************************************************************************)
(* C5.  An upload of a CSV that parses but lacks a required column reports *)
(* an error and leaves the store as it was.                                *)
(***************************************************************************)
C5_StoreKeptOnMissingColumn ==
    [][(/\ last'.op = "load_and_analyze"
        /\ last'.analyzed # <<>>
        /\ ~(required_columns \subseteq Range(last'.analyzed[1].columns)))
       => (/\ \E i \in DOMAIN last'.dialogs : last'.dialogs[i].kind = "error"
           /\ df' = df)]_vars

(***************************************************************************)
(* C6.  An upload that reports a load failure leaves the store as it was.  *)
(***************************************************************************)
C6_StoreKeptOnLoadFailure ==
    [][(last'.op = "load_and_analyze" /\ ErrLoad \in Range(last'.dialogs))
       => df' = df]_vars

(***************************************************************************)
(* C7.  While no upload has read a dataset, an export and a date filter    *)
(* each end with one dialog, the warning that no data is loaded or the     *)
(* error that the filter failed, write no PDF and no chart, do not invoke  *)
(* the aggregation and leave the store not loaded; every operation can     *)
(* then still be taken.                                                    *)
(***************************************************************************)
C7_NotLoadedIsReported ==
    /\ [][(/\ ~df.set
           /\ last'.op \in {"export_report_pdf", "analyze_with_date_filter"})
          => (/\ df' = NoAttr
              /\ last'.pdf = <<>>
              /\ ~last'.chart
              /\ last'.filtered = <<>>
              /\ last'.analyzed = <<>>
              /\ last'.summary = <<>>
              /\ last'.insights = <<>>
              /\ last'.op = "export_report_pdf" => last'.dialogs = <<WarnNoData>>
              /\ last'.op = "analyze_with_date_filter" => last'.dialogs = <<ErrFilter>>)]_vars
    /\ [](~df.set => (ENABLED LoadCancel /\ ENABLED Load /\ ENABLED Filter /\ ENABLED Export))

\* An export was refused while nothing was loaded.
C7_Witness ==
    ~df.set /\ last.op = "export_report_pdf" /\ last.dialogs = <<WarnNoData>>

(***************************************************************************)
(* C8.  A date filter whose range holds no record of the loaded dataset,   *)
(* as every range with start > end, shows the informational "no records"   *)
(* dialog and does not invoke analyze_attendance; a filter whose start or  *)
(* end does not parse shows an error and neither filters nor aggregates.   *)
(***************************************************************************)
C8_EmptySelectionShortCircuits ==
    last.op = "analyze_with_date_filter" =>
        LET malformed == \/ last.args[1] = <<>> \/ last.args[2] = <<>>
                         \/ Parsed[last.args[1]].raised \/ Parsed[last.args[2]].raised
            notAggregated == /\ last.analyzed = <<>> /\ last.summary = <<>>
                             /\ last.insights = <<>> /\ ~last.chart
            dated == /\ df.set /\ "Date" \in Range(df.columns)
                     /\ \A i \in DOMAIN df.rows : df.rows[i]["Date"].kind = "ts"
        IN  /\ malformed =>
                  last.dialogs = <<ErrFilter>> /\ last.filtered = <<>> /\ notAggregated
            /\ (~malformed /\ dated) =>
                  LET lo == DayKey(Parsed[last.args[1]])
                      hi == DayKey(Parsed[last.args[2]])
                  IN  /\ RowsInRange(df.rows, lo, hi) = {} =>
                            last.dialogs = <<InfoNoRecords>> /\ notAggregated
                      /\ lo > hi => last.dialogs = <<InfoNoRecords>> /\ notAggregated

\* A filter with start after end ran on a dataset with rows on both days.
C8_Witness ==
    /\ last.op = "analyze_with_date_filter"
    /\ last.args = <<Jan02, Jan01>>
    /\ last.dialogs = <<InfoNoRecords>>
    /\ \E i, j \in DOMAIN df.rows :
          /\ DayKey(df.rows[i]["Date"]) = DayKey(Parsed[Jan01])
          /\ DayKey(df.rows[j]["Date"]) = DayKey(Parsed[Jan02])

(***************************************************************************)
(* C9.  A date filter and an export never add, remove or reorder the       *)
(* stored records; an export writes the header and one row per stored      *)
(* record; an upload that changes the store puts the records of the        *)
(* selected file in it, all of them and nothing else.                      *)
(***************************************************************************)
C9_StoreChangesOnlyByUpload ==
    [][/\ last'.op \in {"export_report_pdf", "analyze_with_date_filter"} =>
             /\ df'.set = df.set
             /\ df.set => (df'.columns = df.columns /\ RecordsOf(df') = RecordsOf(df))
       /\ (last'.op = "analyze_with_date_filter" /\ last'.filtered # <<>>) =>
             \E I \in SUBSET DOMAIN df.rows :
                 /\ RecordsOf(last'.filtered[1]) = Pick(RecordsOf(df), I, 1)
                 /\ \A i \in DOMAIN df.rows \ I :
                       LET k == RecordsOf(df)[i]["Date"].day
                       IN  \/ k < DayKey(Parsed[last'.args[1]])
                           \/ k > DayKey(Parsed[last'.args[2]])
       /\ (last'.op = "export_report_pdf" /\ last'.pdf # <<>>) =>
             LET t == last'.pdf[1]
             IN  /\ df.set
                 /\ Len(t) = 1 + Len(df.rows)
                 /\ t[1] = df.columns
                 /\ \A i \in DOMAIN df.rows : \A j \in DOMAIN df.columns :
                       t[i + 1][j] = df.rows[i][df.columns[j]]
       /\ (last'.op = "load_and_analyze" /\ df' # df) =>
             \E f \in disk : IsUploadOf(df', f)
      ]_vars

\* An export wrote the header and the four records of a dataset whose
\* dates an earlier date filter had converted.
C9_Witness ==
    /\ last.op = "export_report_pdf"
    /\ last.pdf # <<>>
    /\ Len(df.rows) = 4
    /\ Len(last.pdf[1]) = 5
    /\ \A i \in DOMAIN df.rows : df.rows[i]["Date"].kind = "ts"

====
